---- MODULE Spec2Model ----
(***************************************************************************)
(* State-machine model of the TUI timer (src/main.go): the bubbletea       *)
(* model struct, its Update handler (key presses, second ticks, blink      *)
(* ticks) and the background alarm-sound task started by a finishing tick. *)
(* The single-timer variant (src/unnamed/part_000) is modelled next to it, *)
(* with its own state and its own specification SpecSingle.                *)
(*                                                                         *)
(* Durations are counted in milliseconds (time.Duration counts             *)
(* nanoseconds; every duration that occurs here is a multiple of 1ms).     *)
(* The text of the input widget is a sequence of one-character strings.    *)
(***************************************************************************)
EXTENDS Integers, Sequences, FiniteSets, TLC

\* ------------------------------------------------------------------ bounds
MaxTimers == 2      \* timers kept in the registry at once
MaxTasks  == 2      \* alarm-sound goroutines alive at once

\* --------------------------------------------------------- program constants
INPUT == 0
ADD   == 1
START == 2
STOP  == 3
RESET == 4
QUIT  == 5

Millisecond == 1
Second == 1000
Minute == 60000
Hour   == 3600000

VARIABLES
    textInput,    \* [value: text, focus: BOOLEAN], the textinput widget
    timers,       \* sequence of Timer records
    blink,        \* m.blink
    focusIndex,   \* m.focusIndex
    focusState,   \* m.focusState (the remembered non-input focus)
    alarmCancel,  \* 0 for nil, else the id of the task the handle cancels
    tasks,        \* id -> [pc, cancelled], the alarm-sound goroutines
    quit,         \* tea.Quit has been returned: the program has ended
    pendingTick,  \* number of scheduled second ticks not yet delivered
    pendingBlink, \* number of scheduled blink ticks not yet delivered
    started,      \* alarm-sound tasks started by the latest event
    finished,     \* timers the latest event took to zero
    emitted       \* what the latest task step made audible

mainVars == <<textInput, timers, blink, focusIndex, focusState, alarmCancel,
              tasks, quit, pendingTick, pendingBlink, started, finished, emitted>>

\* The single-timer variant of the program (src/unnamed/part_000) is
\* modelled next to it; neither program touches the other's state.
VARIABLES
    single,       \* the variant's model struct: [textInput, duration,
                  \* remaining, running, focusIndex, focusState]
    singleTick,   \* number of its scheduled tickMsg not yet delivered
    singleQuit    \* the variant has returned tea.Quit

singleVars == <<single, singleTick, singleQuit>>

vars == <<mainVars, singleVars>>

\* ------------------------------------------------------------ input widget
\* ti.CharLimit set by initialModel
CharLimit == 20

\* The key events the user can produce: msg.String() and the runes carried.
\* A KeyRunes event may carry several runes (fast typing or a paste); its
\* String() is the text itself, which matches none of the named keys and is
\* written "runes" here.  ctrl+u is the widget's delete-before-cursor key.
NavKeys == {"tab", "shift+tab", "left", "right", "up", "down"}
NamedKeys == NavKeys \cup {"ctrl+c", "q", "enter", "ctrl+u"}
Runes == { <<"2", "s">> }
Keys == [s : NamedKeys, runes : {<<>>}] \cup [s : {"runes"}, runes : Runes]

\* the keys of the input-field specification: more texts, fewer named keys
InputRunes == { <<"2", "s">>, <<"0", "s">>, <<"-", "1", "s">>, <<".", "5", "s">>,
                <<"a", "b">> }
InputKeys == [s : {"enter", "tab", "q", "ctrl+u"}, runes : {<<>>}]
             \cup [s : {"runes"}, runes : InputRunes]

\* textinput.Model.SetValue
SetValue(ti, v) == [ti EXCEPT !.value = v]

\* textinput.Model.Focus / Blur
Focus(ti) == [ti EXCEPT !.focus = TRUE]
Blur(ti)  == [ti EXCEPT !.focus = FALSE]

\* textinput.Model.Update for a key event: an unfocused widget ignores the
\* event; ctrl+u deletes the text before the cursor, which is always at the
\* end here (left/right never reach the widget); the other named keys
\* (enter, ...) carry no runes; runes are appended at the cursor and cut to
\* the room CharLimit leaves.
TextInputUpdate(ti, k) ==
    IF ~ti.focus THEN ti
    ELSE IF k.s = "ctrl+u" THEN [ti EXCEPT !.value = <<>>]
    ELSE IF k.runes = <<>> THEN ti
    ELSE LET avail == CharLimit - Len(ti.value)
             n     == IF avail < Len(k.runes) THEN avail ELSE Len(k.runes)
         IN IF avail <= 0 THEN ti
            ELSE [ti EXCEPT !.value = @ \o SubSeq(k.runes, 1, n)]

\* --------------------------------------------------------- time.ParseDuration
Digits == {"0", "1", "2", "3", "4", "5", "6", "7", "8", "9"}
DigitVal(c) == CASE c = "0" -> 0 [] c = "1" -> 1 [] c = "2" -> 2 [] c = "3" -> 3
                 [] c = "4" -> 4 [] c = "5" -> 5 [] c = "6" -> 6 [] c = "7" -> 7
                 [] c = "8" -> 8 [] c = "9" -> 9

\* unitMap, at the model's millisecond resolution ("ns", "us" lie below it
\* and cannot be typed with the modelled runes)
UnitNames == { <<"m", "s">>, <<"s">>, <<"m">>, <<"h">> }
unitMap(u) == CASE u = <<"m", "s">> -> Millisecond [] u = <<"s">> -> Second
                [] u = <<"m">> -> Minute [] u = <<"h">> -> Hour

\* leadingInt: consumes [0-9]* from position i, gives the value and the
\* position after it
RECURSIVE leadingInt(_, _, _)
leadingInt(s, i, v) ==
    IF i <= Len(s) /\ s[i] \in Digits
    THEN leadingInt(s, i + 1, v * 10 + DigitVal(s[i]))
    ELSE [v |-> v, i |-> i]

\* leadingFraction: consumes [0-9]* from position i, gives the digits as an
\* integer, the power of ten that scales them, and the position after them
RECURSIVE leadingFraction(_, _, _, _)
leadingFraction(s, i, f, scale) ==
    IF i <= Len(s) /\ s[i] \in Digits
    THEN leadingFraction(s, i + 1, f * 10 + DigitVal(s[i]), scale * 10)
    ELSE [f |-> f, scale |-> scale, i |-> i]

\* position after the unit that starts at i: up to the next '.' or digit
RECURSIVE unitEnd(_, _)
unitEnd(s, i) ==
    IF i <= Len(s) /\ s[i] /= "." /\ s[i] \notin Digits THEN unitEnd(s, i + 1) ELSE i

ParseError == [ok |-> FALSE, d |-> 0]

\* the loop of ParseDuration: ([0-9]*(\.[0-9]*)?[a-z]+)+ from position i,
\* d accumulated so far
RECURSIVE parseGroups(_, _, _)
parseGroups(s, i, d) ==
    IF i > Len(s) THEN [ok |-> TRUE, d |-> d]
    ELSE IF ~(s[i] = "." \/ s[i] \in Digits) THEN ParseError
    ELSE LET li   == leadingInt(s, i, 0)
             pre  == li.i /= i
             dot  == li.i <= Len(s) /\ s[li.i] = "."
             lf   == IF dot THEN leadingFraction(s, li.i + 1, 0, 1)
                      ELSE [f |-> 0, scale |-> 1, i |-> li.i]
             post == dot /\ lf.i /= li.i + 1
             ue   == unitEnd(s, lf.i)
             u    == SubSeq(s, lf.i, ue - 1)
         IN IF ~pre /\ ~post THEN ParseError
            ELSE IF ue = lf.i THEN ParseError
            ELSE IF u \notin UnitNames THEN ParseError
            ELSE parseGroups(s, ue, d + li.v * unitMap(u) + (lf.f * unitMap(u)) \div lf.scale)

\* time.ParseDuration: [-+]? then the groups; "0" alone is zero
ParseDuration(s) ==
    LET signed == s /= <<>> /\ s[1] \in {"-", "+"}
        neg    == signed /\ s[1] = "-"
        r      == IF signed THEN Tail(s) ELSE s
    IN IF r = <<"0">> THEN [ok |-> TRUE, d |-> 0]
       ELSE IF r = <<>> THEN ParseError
       ELSE LET p == parseGroups(r, 1, 0)
            IN IF p.ok /\ neg THEN [ok |-> TRUE, d |-> 0 - p.d] ELSE p

\* ------------------------------------------------------------------- timers
\* Timer literal of the enter branches
NewTimer(id, parsed) ==
    [ID |-> id, Duration |-> parsed, Remaining |-> parsed,
     Running |-> TRUE, Finished |-> FALSE, Alarming |-> FALSE]

\* slip: the last ID handed out again
GetNewID_same(ts) == IF Len(ts) = 0 THEN 1 ELSE ts[Len(ts)].ID

\* model.GetNewID
GetNewID(ts) == IF Len(ts) = 0 THEN 1 ELSE ts[Len(ts)].ID + 1

\* the alarm-dismissal loop at the head of the KeyMsg case
AnyAlarming(ts) == \E i \in DOMAIN ts : ts[i].Alarming
\* slip: the loop stops at the first alarming timer
DismissAlarms_first(ts) ==
    [i \in DOMAIN ts |->
        IF ts[i].Alarming /\ \A j \in 1 .. i - 1 : ~ts[j].Alarming
        THEN [ts[i] EXCEPT !.Alarming = FALSE] ELSE ts[i]]

DismissAlarms(ts) == [i \in DOMAIN ts |-> [ts[i] EXCEPT !.Alarming = FALSE]]

\* slip: the resume loop without its Finished test
ResumeAll_finishedToo(ts) == [i \in DOMAIN ts |-> [ts[i] EXCEPT !.Running = TRUE]]

\* slip: Start restarts the countdown from Duration
ResumeAll_restart(ts) ==
    [i \in DOMAIN ts |->
        IF ~ts[i].Finished
        THEN [ts[i] EXCEPT !.Running = TRUE, !.Remaining = ts[i].Duration]
        ELSE ts[i]]

\* enter on START: global resume
ResumeAll(ts) ==
    [i \in DOMAIN ts |-> IF ~ts[i].Finished THEN [ts[i] EXCEPT !.Running = TRUE] ELSE ts[i]]

\* enter on STOP: global pause
PauseAll(ts) == [i \in DOMAIN ts |-> [ts[i] EXCEPT !.Running = FALSE]]

\* slip: the finishing test written  < 0
TickTimer_strict(t) ==
    IF t.Running /\ t.Remaining > 0
    THEN IF t.Remaining - Second < 0
         THEN [t EXCEPT !.Remaining = 0, !.Running = FALSE,
                        !.Finished = TRUE, !.Alarming = TRUE]
         ELSE [t EXCEPT !.Remaining = @ - Second]
    ELSE t

\* slip: the finishing branch keeps the decremented value
TickTimer_noClamp(t) ==
    IF t.Running /\ t.Remaining > 0
    THEN IF t.Remaining - Second <= 0
         THEN [t EXCEPT !.Remaining = @ - Second, !.Running = FALSE,
                        !.Finished = TRUE, !.Alarming = TRUE]
         ELSE [t EXCEPT !.Remaining = @ - Second]
    ELSE t

\* slip: the finishing branch without  t.Alarming = true
TickTimer_noAlarm(t) ==
    IF t.Running /\ t.Remaining > 0
    THEN IF t.Remaining - Second <= 0
         THEN [t EXCEPT !.Remaining = 0, !.Running = FALSE, !.Finished = TRUE]
         ELSE [t EXCEPT !.Remaining = @ - Second]
    ELSE t

\* the body of the tickMsg loop for one timer
TickTimer(t) ==
    IF t.Running /\ t.Remaining > 0
    THEN IF t.Remaining - Second <= 0
         THEN [t EXCEPT !.Remaining = 0, !.Running = FALSE,
                        !.Finished = TRUE, !.Alarming = TRUE]
         ELSE [t EXCEPT !.Remaining = @ - Second]
    ELSE t

\* the timers a tick finishes: those for which the loop body reaches the
\* inner branch that sets anyFinishedNow
FinishedNow(ts) ==
    {i \in DOMAIN ts : ts[i].Running /\ ts[i].Remaining > 0 /\ ts[i].Remaining - Second <= 0}

\* slip: anyFinishedNow set for every finished timer the loop meets
AnyFinishedNow_stale(ts) == FinishedNow(ts) /= {} \/ \E i \in DOMAIN ts : ts[i].Finished

\* anyFinishedNow after the tickMsg loop
AnyFinishedNow(ts) == FinishedNow(ts) /= {}

\* ------------------------------------------------------- alarm-sound tasks
\* tasks lists, oldest first, the goroutines running
\*     func() tea.Msg { playSound(ctx); return nil }
\* each with its context: "spawned" (command returned by Update, playSound
\* not yet at the player), "playing" (paplay runs), "done" (playSound has
\* returned and the handle is still held).  alarmCancel is 0 for nil, else
\* the position in tasks of the context the handle cancels.

\* tk without its i-th element
Remove(tk, i) == SubSeq(tk, 1, i - 1) \o SubSeq(tk, i + 1, Len(tk))

\* slip: the handle is dropped without being called
Cancel_forgotten(tk, h) == tk

\* context.CancelFunc: marks the context cancelled.  exec.CommandContext
\* kills a running player, which ends the task; cancelling a finished task
\* does nothing more.  A nil handle (0) is never called.
Cancel(tk, h) ==
    IF h = 0 THEN tk
    ELSE IF tk[h].pc = "spawned" THEN [tk EXCEPT ![h].cancelled = TRUE]
    ELSE Remove(tk, h)

\* context.WithCancel and the command that runs playSound with it
NewTask == [pc |-> "spawned", cancelled |-> FALSE]

\* ------------------------------------------------------------ focus cursor
\* slip: tab wraps one control early
Navigate_tabShort(s, fi, fs) ==
    LET r == CASE s = "tab" ->
                    [fi |-> IF fi + 1 >= QUIT THEN INPUT ELSE fi + 1, fs |-> fs]
               [] s = "shift+tab" ->
                    [fi |-> IF fi - 1 < INPUT THEN QUIT ELSE fi - 1, fs |-> fs]
               [] s = "left" ->
                    IF fi = INPUT THEN [fi |-> fi, fs |-> fs]
                    ELSE IF fi = ADD THEN [fi |-> QUIT, fs |-> QUIT]
                    ELSE [fi |-> fi - 1, fs |-> fi - 1]
               [] s = "right" ->
                    IF fi = INPUT THEN [fi |-> fi, fs |-> fs]
                    ELSE IF fi = QUIT THEN [fi |-> ADD, fs |-> ADD]
                    ELSE [fi |-> fi + 1, fs |-> fi + 1]
               [] s = "up" ->
                    [fi |-> IF fi > INPUT THEN INPUT ELSE fi, fs |-> fs]
               [] s = "down" ->
                    IF fi = INPUT
                    THEN [fi |-> IF fs > INPUT THEN fs ELSE ADD, fs |-> fs]
                    ELSE [fi |-> fi, fs |-> fs]
    IN [r EXCEPT !.fi = IF @ > QUIT THEN INPUT ELSE IF @ < INPUT THEN QUIT ELSE @]

\* slip: left without its wrap from ADD to QUIT
Navigate_leftPlain(s, fi, fs) ==
    LET r == CASE s = "tab" ->
                    [fi |-> IF fi + 1 > QUIT THEN INPUT ELSE fi + 1, fs |-> fs]
               [] s = "shift+tab" ->
                    [fi |-> IF fi - 1 < INPUT THEN QUIT ELSE fi - 1, fs |-> fs]
               [] s = "left" ->
                    IF fi = INPUT THEN [fi |-> fi, fs |-> fs]
                    ELSE [fi |-> fi - 1, fs |-> fi - 1]
               [] s = "right" ->
                    IF fi = INPUT THEN [fi |-> fi, fs |-> fs]
                    ELSE IF fi = QUIT THEN [fi |-> ADD, fs |-> ADD]
                    ELSE [fi |-> fi + 1, fs |-> fi + 1]
               [] s = "up" ->
                    [fi |-> IF fi > INPUT THEN INPUT ELSE fi, fs |-> fs]
               [] s = "down" ->
                    IF fi = INPUT
                    THEN [fi |-> IF fs > INPUT THEN fs ELSE ADD, fs |-> fs]
                    ELSE [fi |-> fi, fs |-> fs]
    IN [r EXCEPT !.fi = IF @ > QUIT THEN INPUT ELSE IF @ < INPUT THEN QUIT ELSE @]

\* slip: down goes to focusState even when it was never set
Navigate_downUnset(s, fi, fs) ==
    LET r == CASE s = "tab" ->
                    [fi |-> IF fi + 1 > QUIT THEN INPUT ELSE fi + 1, fs |-> fs]
               [] s = "shift+tab" ->
                    [fi |-> IF fi - 1 < INPUT THEN QUIT ELSE fi - 1, fs |-> fs]
               [] s = "left" ->
                    IF fi = INPUT THEN [fi |-> fi, fs |-> fs]
                    ELSE IF fi = ADD THEN [fi |-> QUIT, fs |-> QUIT]
                    ELSE [fi |-> fi - 1, fs |-> fi - 1]
               [] s = "right" ->
                    IF fi = INPUT THEN [fi |-> fi, fs |-> fs]
                    ELSE IF fi = QUIT THEN [fi |-> ADD, fs |-> ADD]
                    ELSE [fi |-> fi + 1, fs |-> fi + 1]
               [] s = "up" ->
                    [fi |-> IF fi > INPUT THEN INPUT ELSE fi, fs |-> fs]
               [] s = "down" ->
                    IF fi = INPUT
                    THEN [fi |-> fs, fs |-> fs]
                    ELSE [fi |-> fi, fs |-> fs]
    IN [r EXCEPT !.fi = IF @ > QUIT THEN INPUT ELSE IF @ < INPUT THEN QUIT ELSE @]

\* the inner switch on the navigation key, then the range clamp after it;
\* gives the new focusIndex and focusState
Navigate(s, fi, fs) ==
    LET r == CASE s = "tab" ->
                    [fi |-> IF fi + 1 > QUIT THEN INPUT ELSE fi + 1, fs |-> fs]
               [] s = "shift+tab" ->
                    [fi |-> IF fi - 1 < INPUT THEN QUIT ELSE fi - 1, fs |-> fs]
               [] s = "left" ->
                    IF fi = INPUT THEN [fi |-> fi, fs |-> fs]
                    ELSE IF fi = ADD THEN [fi |-> QUIT, fs |-> QUIT]
                    ELSE [fi |-> fi - 1, fs |-> fi - 1]
               [] s = "right" ->
                    IF fi = INPUT THEN [fi |-> fi, fs |-> fs]
                    ELSE IF fi = QUIT THEN [fi |-> ADD, fs |-> ADD]
                    ELSE [fi |-> fi + 1, fs |-> fi + 1]
               [] s = "up" ->
                    [fi |-> IF fi > INPUT THEN INPUT ELSE fi, fs |-> fs]
               [] s = "down" ->
                    IF fi = INPUT
                    THEN [fi |-> IF fs > INPUT THEN fs ELSE ADD, fs |-> fs]
                    ELSE [fi |-> fi, fs |-> fs]
    IN [r EXCEPT !.fi = IF @ > QUIT THEN INPUT ELSE IF @ < INPUT THEN QUIT ELSE @]

\* ------------------------------------------------------------------ startup
\* the variant's focus constants
S_INPUT == 0
S_START == 1
S_STOP  == 2
S_RESET == 3
S_QUIT  == 4

\* the variant's initialModel; its Init returns textinput.Blink alone, so
\* no tick is scheduled at startup
SingleInitialModel ==
    [textInput |-> [value |-> <<>>, focus |-> TRUE],
     duration |-> 0, remaining |-> 0, running |-> FALSE,
     focusIndex |-> S_INPUT, focusState |-> S_INPUT]

\* initialModel, then the commands model.Init batches: one second tick and
\* one blink tick are scheduled
Init ==
    /\ textInput = [value |-> <<>>, focus |-> TRUE]
    /\ timers = <<>>
    /\ blink = FALSE
    /\ focusIndex = INPUT
    /\ focusState = INPUT
    /\ alarmCancel = 0
    /\ tasks = <<>>
    /\ quit = FALSE
    /\ pendingTick = 1
    /\ pendingBlink = 1
    /\ started = 0
    /\ finished = 0
    /\ emitted = "none"
    /\ single = SingleInitialModel
    /\ singleTick = 0
    /\ singleQuit = FALSE

\* ------------------------------------------------------------- key presses
\* what the enter branch makes of the timers and the text: the timer is
\* created from the parsed text on INPUT and ADD, START resumes, STOP
\* pauses, RESET empties the registry
\* slip: the test  parsed > 0  left out
EnterTimers_anySign(fi, ts, ti) ==
    LET p == ParseDuration(ti.value)
    IN CASE fi \in {INPUT, ADD} ->
              IF p.ok THEN Append(ts, NewTimer(GetNewID(ts), p.d)) ELSE ts
         [] fi = START -> ResumeAll(ts)
         [] fi = STOP  -> PauseAll(ts)
         [] fi = RESET -> <<>>
         [] OTHER -> ts

\* slip: the RESET branch cancels the sound and leaves the registry
EnterTimers_noClear(fi, ts, ti) ==
    LET p == ParseDuration(ti.value)
    IN CASE fi \in {INPUT, ADD} ->
              IF p.ok /\ p.d > 0 THEN Append(ts, NewTimer(GetNewID(ts), p.d)) ELSE ts
         [] fi = START -> ResumeAll(ts)
         [] fi = STOP  -> PauseAll(ts)
         [] OTHER -> ts

\* slip: the new timer is put in front of the registry
EnterTimers_prepend(fi, ts, ti) ==
    LET p == ParseDuration(ti.value)
    IN CASE fi \in {INPUT, ADD} ->
              IF p.ok /\ p.d > 0 THEN <<NewTimer(GetNewID(ts), p.d)>> \o ts ELSE ts
         [] fi = START -> ResumeAll(ts)
         [] fi = STOP  -> PauseAll(ts)
         [] fi = RESET -> <<>>
         [] OTHER -> ts

EnterTimers(fi, ts, ti) ==
    LET p == ParseDuration(ti.value)
    IN CASE fi \in {INPUT, ADD} ->
              IF p.ok /\ p.d > 0 THEN Append(ts, NewTimer(GetNewID(ts), p.d)) ELSE ts
         [] fi = START -> ResumeAll(ts)
         [] fi = STOP  -> PauseAll(ts)
         [] fi = RESET -> <<>>
         [] OTHER -> ts

EnterText(fi, ti) ==
    LET p == ParseDuration(ti.value)
    IN IF fi \in {INPUT, ADD} /\ p.ok /\ p.d > 0 THEN SetValue(ti, <<>>) ELSE ti

\* slip: only ctrl+c ends the program, q goes on to the input widget
QuitKeys_ctrlOnly == {"ctrl+c"}

\* case "ctrl+c", "q": the keys that return tea.Quit from any focus
QuitKeys == {"ctrl+c", "q"}

\* the key events modelled: a creation needs room under MaxTimers, and
\* runes are typed into an empty field (a text of Runes is typed whole)
Modelled(k) ==
    LET p == ParseDuration(textInput.value)
    IN \/ AnyAlarming(timers)
       \/ /\ k.s = "enter" /\ focusIndex \in {INPUT, ADD} /\ p.ok /\ p.d > 0
             => Len(timers) < MaxTimers
          /\ k.s = "runes" /\ focusIndex = INPUT /\ textInput.focus
             => textInput.value = <<>>

\* model.Update, case tea.KeyMsg
KeyMsg(k) ==
    /\ ~quit
    /\ Modelled(k)
    \* the handle is cancelled and cleared before anything else; the later
    \* cancels of RESET and QUIT therefore meet a nil handle
    /\ tasks' = Cancel(tasks, alarmCancel)
    /\ alarmCancel' = 0
    /\ started' = 0
    /\ finished' = 0
    /\ emitted' = "none"
    /\ UNCHANGED <<blink, pendingTick, pendingBlink>>
    /\ UNCHANGED singleVars
    /\ IF AnyAlarming(timers)
       THEN /\ timers' = DismissAlarms(timers)
            /\ UNCHANGED <<textInput, focusIndex, focusState, quit>>
       ELSE CASE k.s \in QuitKeys ->
                   /\ quit' = TRUE
                   /\ UNCHANGED <<textInput, timers, focusIndex, focusState>>
              [] k.s \in NavKeys ->
                   LET r == Navigate(k.s, focusIndex, focusState)
                   IN /\ focusIndex' = r.fi
                      /\ focusState' = r.fs
                      /\ textInput' = IF r.fi = INPUT THEN Focus(textInput)
                                      ELSE Blur(textInput)
                      /\ UNCHANGED <<timers, quit>>
              [] k.s = "enter" ->
                   /\ quit' = (focusIndex = QUIT)
                   /\ timers' = EnterTimers(focusIndex, timers, textInput)
                   /\ textInput' =
                        LET ti == EnterText(focusIndex, textInput)
                        IN IF focusIndex = INPUT THEN TextInputUpdate(ti, k) ELSE ti
                   /\ UNCHANGED <<focusIndex, focusState>>
              [] OTHER ->
                   /\ textInput' = IF focusIndex = INPUT
                                   THEN TextInputUpdate(textInput, k)
                                   ELSE textInput
                   /\ UNCHANGED <<timers, focusIndex, focusState, quit>>

\* ------------------------------------------------------------------- ticks
\* slip: the alarm branch returns the playSound command without tickCmd()
TickCmds_alarmAlone(anyFinishedNow) == IF anyFinishedNow THEN 0 ELSE 1

\* the second ticks scheduled by the command the tickMsg case returns:
\* tea.Batch(playSound, tickCmd()) when a timer finished, tickCmd() otherwise
TickCmds(anyFinishedNow) == IF anyFinishedNow THEN 1 ELSE 1

\* model.Update, case tickMsg.  A tick that finishes a timer cancels the
\* held task, starts a new one and keeps its handle; every tick schedules
\* the next one.  With MaxTasks goroutines still alive such a tick waits for
\* one of them to return.
TickMsg ==
    /\ ~quit
    /\ pendingTick > 0
    /\ timers' = [i \in DOMAIN timers |-> TickTimer(timers[i])]
    /\ IF AnyFinishedNow(timers)
       THEN LET tk == Cancel(tasks, alarmCancel)
            IN /\ Len(tk) < MaxTasks
               /\ tasks' = Append(tk, NewTask)
               /\ alarmCancel' = Len(tk) + 1
               /\ started' = 1
       ELSE /\ started' = 0
            /\ UNCHANGED <<tasks, alarmCancel>>
    /\ finished' = Cardinality(FinishedNow(timers))
    /\ pendingTick' = pendingTick - 1 + TickCmds(AnyFinishedNow(timers))
    /\ emitted' = "none"
    /\ UNCHANGED <<textInput, blink, focusIndex, focusState, quit, pendingBlink>>
    /\ UNCHANGED singleVars

\* model.Update, case blinkMsg
BlinkMsg ==
    /\ ~quit
    /\ pendingBlink > 0
    /\ blink' = ~blink
    /\ pendingBlink' = pendingBlink - 1 + 1
    /\ started' = 0
    /\ finished' = 0
    /\ emitted' = "none"
    /\ UNCHANGED <<textInput, timers, focusIndex, focusState, alarmCancel,
                   tasks, quit, pendingTick>>
    /\ UNCHANGED singleVars

\* --------------------------------------------------------- the sound task
\* the task list and the handle once task id has returned: a held task stays
\* as "done", any other leaves the list (and the handle's position shifts)
Returned(tk, h, id) ==
    IF h = id THEN [tasks |-> [tk EXCEPT ![id].pc = "done"], handle |-> h]
    ELSE [tasks |-> Remove(tk, id), handle |-> IF h > id THEN h - 1 ELSE h]

\* playSound up to the player: with a sound file present, paplay is started
\* unless the context is already cancelled (exec.Cmd.Start returns the
\* context's error); with none present, the bell is printed whatever the
\* context says; playSound then returns.
PlaySound(id) ==
    /\ ~quit
    /\ id \in DOMAIN tasks
    /\ tasks[id].pc = "spawned"
    /\ \E fileFound \in BOOLEAN :
         IF fileFound /\ ~tasks[id].cancelled
         THEN /\ tasks' = [tasks EXCEPT ![id].pc = "playing"]
              /\ emitted' = "paplay"
              /\ UNCHANGED alarmCancel
         ELSE /\ tasks' = Returned(tasks, alarmCancel, id).tasks
              /\ alarmCancel' = Returned(tasks, alarmCancel, id).handle
              /\ emitted' = IF fileFound THEN "none"
                            ELSE IF tasks[id].cancelled THEN "bell after cancel"
                            ELSE "bell"
    /\ started' = 0
    /\ finished' = 0
    /\ UNCHANGED <<textInput, timers, blink, focusIndex, focusState,
                   quit, pendingTick, pendingBlink>>
    /\ UNCHANGED singleVars

\* paplay ends by itself: Run and playSound return
PlayerExit(id) ==
    /\ ~quit
    /\ id \in DOMAIN tasks
    /\ tasks[id].pc = "playing"
    /\ tasks' = Returned(tasks, alarmCancel, id).tasks
    /\ alarmCancel' = Returned(tasks, alarmCancel, id).handle
    /\ started' = 0
    /\ finished' = 0
    /\ emitted' = "none"
    /\ UNCHANGED <<textInput, timers, blink, focusIndex, focusState,
                   quit, pendingTick, pendingBlink>>
    /\ UNCHANGED singleVars

\* every event, with the runes of Runes
Next ==
    \/ \E k \in Keys : KeyMsg(k)
    \/ TickMsg
    \/ BlinkMsg
    \/ \E id \in 1 .. MaxTasks : PlaySound(id)
    \/ \E id \in 1 .. MaxTasks : PlayerExit(id)

Spec == Init /\ [][Next]_vars

\* the input field exercised: the texts of InputRunes typed, enter pressed
\* on every control tab reaches, ticks and sound tasks running
NextInput ==
    \/ \E k \in InputKeys : KeyMsg(k)
    \/ TickMsg
    \/ \E id \in 1 .. MaxTasks : PlaySound(id)
    \/ \E id \in 1 .. MaxTasks : PlayerExit(id)

SpecInput == Init /\ [][NextInput]_vars

\* the countdown exercised: timers of Runes created, every control reached
\* by tab and activated, with the second ticks delivered fairly (tea.Tick
\* fires each scheduled tick) and every started goroutine run
CountRunes == { <<"1", "s">>, <<"3", "s">> }
CountKeys == [s : {"enter", "tab"}, runes : {<<>>}] \cup [s : {"runes"}, runes : CountRunes]

NextCount ==
    \/ \E k \in CountKeys : KeyMsg(k)
    \/ TickMsg
    \/ \E id \in 1 .. MaxTasks : PlaySound(id)
    \/ \E id \in 1 .. MaxTasks : PlayerExit(id)

SpecCount ==
    /\ Init
    /\ [][NextCount]_vars
    /\ WF_vars(TickMsg)
    /\ WF_vars(\E id \in 1 .. MaxTasks : PlaySound(id))

\* ------------------------------------------ the single-timer variant
MaxPending == 3     \* scheduled ticks of the variant in flight at once

\* the variant's inner switch on the navigation key, then its range clamp
SingleNavigate(s, fi, fs) ==
    LET r == CASE s = "tab" -> [fi |-> fi + 1, fs |-> fs]
               [] s = "shift+tab" -> [fi |-> fi - 1, fs |-> fs]
               [] s = "left" ->
                    IF fi = 0 THEN [fi |-> S_START, fs |-> S_START]
                    ELSE IF fi = S_START THEN [fi |-> S_QUIT, fs |-> S_QUIT]
                    ELSE [fi |-> fi - 1, fs |-> fi - 1]
               [] s = "right" ->
                    IF fi = S_INPUT THEN [fi |-> S_QUIT, fs |-> S_QUIT]
                    ELSE IF fi = S_QUIT THEN [fi |-> S_START, fs |-> S_START]
                    ELSE [fi |-> fi + 1, fs |-> fi + 1]
               [] s = "up" ->
                    [fi |-> IF fi > S_INPUT THEN S_INPUT ELSE fi, fs |-> fs]
               [] s = "down" ->
                    LET f == IF fi = S_INPUT THEN fs ELSE fi
                    IN [fi |-> IF f > S_INPUT THEN f ELSE f + 1, fs |-> fs]
    IN [r EXCEPT !.fi = IF @ > S_QUIT THEN S_INPUT
                        ELSE IF @ < S_INPUT THEN S_QUIT ELSE @]

\* the variant's enter branch: the model it leaves, the ticks its command
\* schedules, and whether the command is tea.Quit.  INPUT and START return
\* a new tea.Tick whether or not one is pending already.
SingleEnter(m) ==
    LET p == ParseDuration(m.textInput.value)
        started1 == [m EXCEPT !.duration = p.d, !.remaining = p.d, !.running = TRUE,
                              !.textInput = Blur(SetValue(m.textInput, <<>>)),
                              !.focusIndex = S_STOP]
        parsed == IF p.ok THEN p.d ELSE m.remaining
        started2 == [m EXCEPT !.duration = parsed, !.remaining = parsed,
                              !.running = TRUE,
                              !.textInput = SetValue(m.textInput, <<>>)]
    IN CASE m.focusIndex = S_INPUT ->
              IF p.ok /\ p.d > 0
              THEN [m |-> started1, ticks |-> 1, quit |-> FALSE]
              ELSE [m |-> m, ticks |-> 0, quit |-> FALSE]
         [] m.focusIndex = S_START ->
              IF parsed > 0
              THEN [m |-> started2, ticks |-> 1, quit |-> FALSE]
              ELSE [m |-> m, ticks |-> 0, quit |-> FALSE]
         [] m.focusIndex = S_STOP ->
              [m |-> [m EXCEPT !.running = FALSE], ticks |-> 0, quit |-> FALSE]
         [] m.focusIndex = S_RESET ->
              [m |-> [m EXCEPT !.duration = 0, !.remaining = 0, !.running = FALSE,
                               !.textInput = SetValue(m.textInput, <<>>)],
               ticks |-> 0, quit |-> FALSE]
         [] m.focusIndex = 4 -> [m |-> m, ticks |-> 0, quit |-> TRUE]

\* the keys pressed on the variant
SingleRunes == { <<"3", "s">> }
SingleKeys == [s : NavKeys \cup {"enter", "q"}, runes : {<<>>}]
              \cup [s : {"runes"}, runes : SingleRunes]

\* the variant's Update, case tea.KeyMsg.  Runes are typed into an empty
\* field, and a key that schedules a tick needs room under MaxPending.
SingleKeyMsg(k) ==
    /\ ~singleQuit
    /\ (k.s = "runes" /\ single.focusIndex = S_INPUT) => single.textInput.value = <<>>
    /\ CASE k.s \in QuitKeys ->
              /\ singleQuit' = TRUE
              /\ UNCHANGED <<single, singleTick>>
         [] k.s \in NavKeys ->
              LET r == SingleNavigate(k.s, single.focusIndex, single.focusState)
              IN /\ single' = [single EXCEPT
                                 !.focusIndex = r.fi, !.focusState = r.fs,
                                 !.textInput = IF r.fi = S_INPUT THEN Focus(@)
                                               ELSE Blur(@)]
                 /\ UNCHANGED <<singleTick, singleQuit>>
         [] k.s = "enter" ->
              LET e == SingleEnter(single)
              IN /\ singleTick + e.ticks <= MaxPending
                 /\ single' = e.m
                 /\ singleTick' = singleTick + e.ticks
                 /\ singleQuit' = e.quit
         [] OTHER ->
              /\ single' = IF single.focusIndex = S_INPUT
                            THEN [single EXCEPT !.textInput = TextInputUpdate(@, k)]
                            ELSE single
              /\ UNCHANGED <<singleTick, singleQuit>>
    /\ UNCHANGED mainVars

\* the variant's Update, case tickMsg: a running countdown loses a second
\* and, unless that ends it, schedules the next tick; a tick that finds the
\* countdown stopped schedules nothing.
SingleTickMsg ==
    /\ ~singleQuit
    /\ singleTick > 0
    /\ IF single.running /\ single.remaining > 0
       THEN IF single.remaining - Second <= 0
            THEN /\ single' = [single EXCEPT !.running = FALSE, !.remaining = 0]
                 /\ singleTick' = singleTick - 1
            ELSE /\ single' = [single EXCEPT !.remaining = @ - Second]
                 /\ singleTick' = singleTick - 1 + 1
       ELSE /\ singleTick' = singleTick - 1
            /\ UNCHANGED single
    /\ UNCHANGED singleQuit
    /\ UNCHANGED mainVars

NextSingle ==
    \/ \E k \in SingleKeys : SingleKeyMsg(k)
    \/ SingleTickMsg

SpecSingle == Init /\ [][NextSingle]_vars

TypeOK ==
    /\ focusIndex \in INPUT .. QUIT
    /\ focusState \in INPUT .. QUIT
    /\ Len(timers) <= MaxTimers
    /\ Len(tasks) <= MaxTasks
    /\ alarmCancel \in 0 .. Len(tasks)
    /\ single.focusIndex \in S_INPUT .. S_QUIT
    /\ singleTick \in 0 .. MaxPending

\* =================================================================== claims
KeyStep == \E k \in Keys : KeyMsg(k)
EnterKey == [s |-> "enter", runes |-> <<>>]
NamedKey(n) == [s |-> n, runes |-> <<>>]

\* the fields of the timers that an alarm dismissal must leave alone
SameButAlarming(ts1, ts2) ==
    /\ DOMAIN ts1 = DOMAIN ts2
    /\ \A i \in DOMAIN ts1 : [ts2[i] EXCEPT !.Alarming = ts1[i].Alarming] = ts1[i]

\* the alarm-sound task behind the handle has been told to stop: no task
\* is left that runs with an uncancelled context
NoLiveTask(tk) == \A j \in DOMAIN tk : tk[j].pc = "spawned" /\ tk[j].cancelled

\* C1: any key pressed while a timer is Alarming clears every Alarming flag,
\* cancels and clears the alarm handle, and changes nothing else: focus,
\* focus memory, input text, the timers' other fields, and the program
\* keeps running.
C1_KeyOnlyDismisses ==
    [][ (AnyAlarming(timers) /\ KeyStep) =>
          /\ \A i \in DOMAIN timers' : ~timers'[i].Alarming
          /\ alarmCancel' = 0
          /\ NoLiveTask(tasks')
          /\ SameButAlarming(timers, timers')
          /\ focusIndex' = focusIndex
          /\ focusState' = focusState
          /\ textInput' = textInput
          /\ blink' = blink
          /\ ~quit'
      ]_vars

\* two timers finished and dismissed, with focus on Reset and text typed
C1_Witness ==
    /\ ~quit
    /\ Len(timers) = 2
    /\ \A i \in DOMAIN timers : timers[i].Finished /\ ~timers[i].Alarming
    /\ alarmCancel = 0
    /\ focusIndex = RESET
    /\ textInput.value = <<"2", "s">>

\* the running timers that the next second tick takes to zero
ReachZero ==
    {i \in DOMAIN timers :
        timers[i].Running /\ timers[i].Remaining > 0 /\ timers[i].Remaining <= Second}

\* C2: a second tick on which k >= 1 running timers reach zero makes all k
\* Finished and Alarming and starts exactly one alarm-sound task; a tick on
\* which no timer newly finishes starts none.
C2_OneAlarmPerTick ==
    [][ TickMsg =>
          /\ \A i \in ReachZero : timers'[i].Finished /\ timers'[i].Alarming
          /\ ReachZero /= {} =>
               /\ started' = 1
               /\ Cardinality({j \in DOMAIN tasks' : ~tasks'[j].cancelled}) = 1
               /\ alarmCancel' \in DOMAIN tasks'
               /\ tasks'[alarmCancel'] = NewTask
          /\ ReachZero = {} =>
               /\ started' = 0
               /\ tasks' = tasks
               /\ alarmCancel' = alarmCancel
      ]_vars

\* the tick just delivered took two timers to zero together
C2_Witness ==
    /\ finished = 2
    /\ started = 1
    /\ \A i \in DOMAIN timers : timers[i].Finished /\ timers[i].Alarming
    /\ Len(tasks) = 1

\* C3 as claimed: Enter on Reset while a timer is Alarming leaves the
\* registry empty, the alarm-sound task cancelled and no handle held.
C3_ResetWhileAlarming ==
    [][ (AnyAlarming(timers) /\ focusIndex = RESET /\ KeyMsg(EnterKey)) =>
          /\ timers' = <<>>
          /\ alarmCancel' = 0
          /\ NoLiveTask(tasks')
      ]_vars

\* C3 amended: Enter on Reset always leaves the alarm-sound task cancelled
\* and no handle held; while a timer is Alarming it only dismisses the alarm
\* and the registry keeps its timers, and with no timer Alarming it leaves
\* the registry empty.
C3_ResetDismissesFirst ==
    [][ (focusIndex = RESET /\ KeyMsg(EnterKey)) =>
          /\ alarmCancel' = 0
          /\ NoLiveTask(tasks')
          /\ IF AnyAlarming(timers)
             THEN /\ SameButAlarming(timers, timers')
                  /\ \A i \in DOMAIN timers' : ~timers'[i].Alarming
             ELSE timers' = <<>>
      ]_vars

\* the registry emptied on Reset after an alarm whose sound task was
\* cancelled before it reached the player
C3_Witness ==
    /\ ~quit
    /\ focusIndex = RESET
    /\ timers = <<>>
    /\ alarmCancel = 0
    /\ Len(tasks) = 1
    /\ tasks[1].cancelled

\* C4: a Finished timer is not Running, and whatever event comes next it is
\* still there, Finished and not Running, unless that event is the Enter on
\* Reset that empties the registry.
C4_FinishedNeverResumes ==
    [][ \A i \in DOMAIN timers :
          timers[i].Finished =>
            /\ ~timers[i].Running
            /\ \/ /\ i \in DOMAIN timers'
                  /\ timers'[i].ID = timers[i].ID
                  /\ timers'[i].Finished
                  /\ ~timers'[i].Running
               \/ /\ timers' = <<>>
                  /\ ~AnyAlarming(timers)
                  /\ focusIndex = RESET
                  /\ KeyMsg(EnterKey)
      ]_vars

\* focus on Start with a finished, dismissed timer next to one that runs
\* and has counted down
C4_Witness ==
    /\ ~quit
    /\ focusIndex = START
    /\ Len(timers) = 2
    /\ timers[1].Finished /\ ~timers[1].Running /\ ~timers[1].Alarming
    /\ timers[2].Running /\ timers[2].Remaining < timers[2].Duration

\* C5: a running timer with a whole number r > 0 of seconds left loses
\* exactly one second on a second tick and on no other event: it stays
\* Running and not Finished while r > 1, and on the tick that takes it to
\* zero it stops, is Finished and Alarming, and an alarm-sound task is
\* started.  With the second ticks delivered fairly, a running timer
\* finishes unless it is paused or cleared or the program is quit first.
C5_Countdown ==
    /\ [][ \A i \in DOMAIN timers :
             LET t == timers[i]
             IN (t.Running /\ t.Remaining > 0 /\ t.Remaining % Second = 0) =>
                  IF TickMsg
                  THEN /\ timers'[i].Remaining = t.Remaining - Second
                       /\ IF t.Remaining = Second
                          THEN /\ ~timers'[i].Running
                               /\ timers'[i].Finished
                               /\ timers'[i].Alarming
                               /\ started' = 1
                               /\ tasks'[alarmCancel'] = NewTask
                          ELSE /\ timers'[i].Running
                               /\ ~timers'[i].Finished
                               /\ ~timers'[i].Alarming
                  ELSE \/ timers' = <<>>
                       \/ timers'[i].Remaining = t.Remaining
         ]_vars
    /\ \A i \in 1 .. MaxTimers :
         (i \in DOMAIN timers /\ timers[i].Running /\ timers[i].Remaining % Second = 0)
           ~> \/ quit
              \/ i \notin DOMAIN timers
              \/ timers[i].Finished /\ timers[i].Alarming /\ timers[i].Remaining = 0
              \/ ~timers[i].Running /\ ~timers[i].Finished

\* a three-second timer just taken to zero by a tick, its sound task started
C5_Witness ==
    /\ finished = 1
    /\ started = 1
    /\ Len(timers) = 1
    /\ timers[1].Duration = 3 * Second
    /\ timers[1].Remaining = 0
    /\ ~timers[1].Running /\ timers[1].Finished /\ timers[1].Alarming
    /\ alarmCancel /= 0
    /\ tasks[alarmCancel] = NewTask

\* the largest ID in the registry, 0 for an empty one
MaxID(ts) ==
    IF ts = <<>> THEN 0
    ELSE LET ids == {ts[i].ID : i \in DOMAIN ts}
         IN CHOOSE m \in ids : \A n \in ids : n <= m

\* C6: with no timer Alarming, Enter on Input or Add with a text that parses
\* to d > 0 appends exactly one timer with ID = largest ID + 1 (1 in an
\* empty registry), Duration = Remaining = d, Running, not Finished, not
\* Alarming; the text becomes empty; the earlier timers and the focus are
\* unchanged.
C6_EnterCreates ==
    [][ LET p == ParseDuration(textInput.value)
        IN (/\ ~AnyAlarming(timers)
            /\ focusIndex \in {INPUT, ADD}
            /\ p.ok /\ p.d > 0
            /\ KeyMsg(EnterKey)) =>
             /\ Len(timers') = Len(timers) + 1
             /\ SubSeq(timers', 1, Len(timers)) = timers
             /\ timers'[Len(timers')] =
                  [ID |-> MaxID(timers) + 1, Duration |-> p.d, Remaining |-> p.d,
                   Running |-> TRUE, Finished |-> FALSE, Alarming |-> FALSE]
             /\ textInput' = [textInput EXCEPT !.value = <<>>]
             /\ focusIndex' = focusIndex
             /\ focusState' = focusState
             /\ ~quit'
      ]_vars

\* ".5s" entered on Add next to a finished two-second timer: timer 2 is
\* fresh, with half a second, and the field is empty
C6_Witness ==
    /\ focusIndex = ADD
    /\ textInput.value = <<>>
    /\ Len(timers) = 2
    /\ timers[1].Duration = 2 * Second /\ timers[1].Finished
    /\ timers[2] = [ID |-> 2, Duration |-> 500 * Millisecond,
                    Remaining |-> 500 * Millisecond,
                    Running |-> TRUE, Finished |-> FALSE, Alarming |-> FALSE]

\* the text in the field is empty, unparseable or parses to d <= 0
InvalidText ==
    LET p == ParseDuration(textInput.value) IN ~p.ok \/ p.d <= 0

\* the program state an Enter with an invalid text is to leave alone
Untouched ==
    /\ timers' = timers
    /\ textInput' = textInput
    /\ focusIndex' = focusIndex
    /\ focusState' = focusState
    /\ alarmCancel' = alarmCancel
    /\ tasks' = tasks
    /\ blink' = blink
    /\ ~quit'

\* C7 as claimed: Enter on Input or Add with an empty, unparseable or
\* non-positive text creates no timer and leaves the whole state unchanged.
C7_InvalidEnterChangesNothing ==
    [][ (focusIndex \in {INPUT, ADD} /\ InvalidText /\ KeyMsg(EnterKey)) => Untouched ]_vars

\* C7 amended: the same, for an Enter pressed while no timer is Alarming.
C7_InvalidEnterNoAlarm ==
    [][ (/\ ~AnyAlarming(timers)
         /\ focusIndex \in {INPUT, ADD}
         /\ InvalidText
         /\ KeyMsg(EnterKey)) => Untouched ]_vars

\* "-1s" kept in the field with focus on Add and a timer counting
C7_Witness ==
    /\ ~quit
    /\ focusIndex = ADD
    /\ textInput.value = <<"-", "1", "s">>
    /\ Len(timers) = 1
    /\ timers[1].Running
    /\ ~AnyAlarming(timers)

\* the controls in tab order, and the neighbours of a control in it
Order == <<INPUT, ADD, START, STOP, RESET, QUIT>>
Pos(f) == CHOOSE i \in DOMAIN Order : Order[i] = f
NextInOrder(f) == Order[(Pos(f) % Len(Order)) + 1]
PrevInOrder(f) == Order[((Pos(f) + Len(Order) - 2) % Len(Order)) + 1]

\* the focus after n presses of tab from focus fi with memory fs
RECURSIVE Tabs(_, _, _)
Tabs(n, fi, fs) ==
    IF n = 0 THEN fi
    ELSE LET r == Navigate("tab", fi, fs) IN Tabs(n - 1, r.fi, r.fs)

\* C8: with no timer Alarming, tab moves the focus to the next control of
\* Input, Add, Start, Stop, Reset, Quit (Quit wraps to Input) and shift+tab
\* to the previous one (Input wraps to Quit); six tabs in a row come back to
\* the starting focus, and so does a tab followed by a shift+tab.
C8_TabCycle ==
    [][ ~AnyAlarming(timers) =>
          /\ KeyMsg(NamedKey("tab")) =>
               /\ focusIndex' = NextInOrder(focusIndex)
               /\ Tabs(5, focusIndex', focusState') = focusIndex
               /\ Navigate("shift+tab", focusIndex', focusState').fi = focusIndex
          /\ KeyMsg(NamedKey("shift+tab")) =>
               focusIndex' = PrevInOrder(focusIndex)
      ]_vars

\* focus on Quit with the memory never set: reached by tab or shift+tab only
C8_Witness ==
    /\ ~quit
    /\ ~AnyAlarming(timers)
    /\ focusIndex = QUIT
    /\ focusState = INPUT
    /\ ~textInput.focus

\* C9: with no timer Alarming, left and right on Input change neither the
\* focus nor the memory; left from Add lands on Quit, right from Quit on
\* Add, elsewhere left goes to the previous and right to the next control;
\* off Input the new focus is never Input and the memory equals it.
C9_LeftRight ==
    [][ ~AnyAlarming(timers) =>
          /\ (focusIndex = INPUT /\ (KeyMsg(NamedKey("left")) \/ KeyMsg(NamedKey("right")))) =>
               /\ focusIndex' = INPUT
               /\ focusState' = focusState
          /\ (focusIndex /= INPUT /\ KeyMsg(NamedKey("left"))) =>
               /\ focusIndex' = IF focusIndex = ADD THEN QUIT ELSE PrevInOrder(focusIndex)
               /\ focusIndex' /= INPUT
               /\ focusState' = focusIndex'
          /\ (focusIndex /= INPUT /\ KeyMsg(NamedKey("right"))) =>
               /\ focusIndex' = IF focusIndex = QUIT THEN ADD ELSE NextInOrder(focusIndex)
               /\ focusIndex' /= INPUT
               /\ focusState' = focusIndex'
      ]_vars

\* focus and memory both on Quit, next to a paused timer
C9_Witness ==
    /\ ~quit
    /\ ~AnyAlarming(timers)
    /\ focusIndex = QUIT
    /\ focusState = QUIT
    /\ Len(timers) = 1
    /\ ~timers[1].Running /\ ~timers[1].Finished

\* C10: with no timer Alarming, down on Input moves the focus to the memory
\* when it holds a control other than Input and to Add otherwise (so before
\* any such control was remembered it lands on Add); down on any other
\* control changes nothing.
C10_Down ==
    [][ (~AnyAlarming(timers) /\ KeyMsg(NamedKey("down"))) =>
          IF focusIndex = INPUT
          THEN /\ focusIndex' = IF focusState /= INPUT THEN focusState ELSE ADD
               /\ focusState' = focusState
          ELSE /\ focusIndex' = focusIndex
               /\ focusState' = focusState
               /\ Untouched
      ]_vars

\* focus on Add and the field blurred while the memory was never set
C10_Witness ==
    /\ ~quit
    /\ ~AnyAlarming(timers)
    /\ focusIndex = ADD
    /\ focusState = INPUT
    /\ ~textInput.focus
    /\ textInput.value = <<"2", "s">>

\* C11: with no timer Alarming, q and ctrl+c end the program from every
\* focus (on Input too, where the text stays as it was), Enter on Quit ends
\* it with no handle held and no alarm-sound task left uncancelled, and
\* once the program has ended no event changes the state any more.
C11_QuitTerminates ==
    /\ [][ \A n \in {"q", "ctrl+c"} :
             (~AnyAlarming(timers) /\ KeyMsg(NamedKey(n))) =>
                /\ quit'
                /\ textInput' = textInput
                /\ timers' = timers
                /\ focusIndex' = focusIndex
                /\ focusState' = focusState
         ]_vars
    /\ [][ (~AnyAlarming(timers) /\ focusIndex = QUIT /\ KeyMsg(EnterKey)) =>
             /\ quit'
             /\ alarmCancel' = 0
             /\ NoLiveTask(tasks')
         ]_vars
    /\ [][ ~quit ]_vars

\* the program ended from the input field with text typed and a timer
\* counting, the text still in the field
C11_Witness ==
    /\ quit
    /\ focusIndex = INPUT
    /\ textInput.focus
    /\ textInput.value = <<"2", "s">>
    /\ \E i \in DOMAIN timers : timers[i].Running

\* C12: focusState is the most recent control other than Input that held
\* focus, whatever key brought the focus there: while such a control S holds
\* the focus the memory is S itself, and so up followed by down leads from S
\* back to S.
C12_FocusMemory ==
    focusIndex /= INPUT =>
        /\ focusState = focusIndex
        /\ LET u == Navigate("up", focusIndex, focusState)
               d == Navigate("down", u.fi, u.fs)
           IN u.fi = INPUT /\ d.fi = focusIndex

\* the alarm-sound tasks whose context has not been cancelled
Live(tk) == {j \in DOMAIN tk : ~tk[j].cancelled}

\* C13: at most one alarm-sound task exists whose cancellation has not
\* been signalled, and it is the one the handle refers to; a tick that
\* starts a task while a handle is held leaves every earlier task cancelled
\* and only the new one live.
C13_OneLiveTask ==
    /\ [](Cardinality(Live(tasks)) <= 1 /\ Live(tasks) \subseteq {alarmCancel})
    /\ [][ (TickMsg /\ started' = 1 /\ alarmCancel /= 0) =>
             /\ alarmCancel' = Len(tasks')
             /\ Live(tasks') = {alarmCancel'}
         ]_vars

\* a second alarm tick found the first task not yet at the player: it is
\* cancelled and the new task is the only live one
C13_Witness ==
    /\ started = 1
    /\ Len(tasks) = 2
    /\ tasks[1].cancelled /\ tasks[1].pc = "spawned"
    /\ ~tasks[2].cancelled
    /\ alarmCancel = 2
    /\ \A i \in DOMAIN timers : timers[i].Alarming
    /\ Len(timers) = 2

\* C14: every timer has 0 <= Remaining <= Duration, a Finished timer has
\* Remaining = 0 and is not Running, and an Alarming timer is Finished; a
\* Duration that is no whole number of seconds ends at zero, not below.
C14_TimerInvariant ==
    \A i \in DOMAIN timers :
        /\ 0 <= timers[i].Remaining
        /\ timers[i].Remaining <= timers[i].Duration
        /\ timers[i].Finished => (timers[i].Remaining = 0 /\ ~timers[i].Running)
        /\ timers[i].Alarming => timers[i].Finished

\* a timer of half a second taken to zero by its first tick, next to one of
\* two seconds that is still counting
C14_Witness ==
    /\ Len(timers) = 2
    /\ timers[1].Duration = 500 * Millisecond
    /\ timers[1].Remaining = 0 /\ timers[1].Finished /\ timers[1].Alarming
    /\ timers[2].Duration = 2 * Second
    /\ timers[2].Remaining = Second /\ timers[2].Running

\* C15: a second tick schedules exactly one next second tick on each of its
\* branches, a blink tick toggles blink and schedules exactly one next
\* blink tick, no other event schedules or drops a tick, and so while the
\* program runs exactly one second tick and one blink tick are pending.
C15_TicksRequeued ==
    /\ [](~quit => (pendingTick = 1 /\ pendingBlink = 1))
    /\ [][ TickMsg => (pendingTick' = 1 /\ pendingBlink' = pendingBlink) ]_vars
    /\ [][ BlinkMsg =>
             (blink' = ~blink /\ pendingBlink' = 1 /\ pendingTick' = pendingTick) ]_vars
    /\ [][ (KeyStep \/ \E id \in 1 .. MaxTasks : PlaySound(id) \/ PlayerExit(id)) =>
             (pendingTick' = pendingTick /\ pendingBlink' = pendingBlink) ]_vars

\* the tick that finished two timers at once and started the alarm-sound
\* task, with the next tick pending and the blink flag set
C15_Witness ==
    /\ ~quit
    /\ started = 1
    /\ finished = 2
    /\ blink
    /\ pendingTick = 1
    /\ pendingBlink = 1

\* C16: with no timer Alarming, Enter on Stop makes every timer not Running
\* and changes nothing else of any timer; a second tick leaves a timer that
\* is not Running as it is; Enter on Start makes exactly the timers that
\* are not Finished Running and changes nothing else, so a paused timer
\* goes on from the Remaining it was paused at.
C16_StopStart ==
    /\ [][ (~AnyAlarming(timers) /\ focusIndex = STOP /\ KeyMsg(EnterKey)) =>
             /\ DOMAIN timers' = DOMAIN timers
             /\ \A i \in DOMAIN timers :
                   timers'[i] = [timers[i] EXCEPT !.Running = FALSE]
         ]_vars
    /\ [][ TickMsg =>
             \A i \in DOMAIN timers : ~timers[i].Running => timers'[i] = timers[i]
         ]_vars
    /\ [][ (~AnyAlarming(timers) /\ focusIndex = START /\ KeyMsg(EnterKey)) =>
             /\ DOMAIN timers' = DOMAIN timers
             /\ \A i \in DOMAIN timers :
                   timers'[i] = IF timers[i].Finished THEN timers[i]
                                ELSE [timers[i] EXCEPT !.Running = TRUE]
         ]_vars

\* focus on Stop with a timer paused one second into its two, next to a
\* finished one
C16_Witness ==
    /\ ~quit
    /\ focusIndex = STOP
    /\ Len(timers) = 2
    /\ timers[1].Finished /\ ~timers[1].Alarming
    /\ ~timers[2].Running /\ ~timers[2].Finished
    /\ timers[2].Duration = 2 * Second /\ timers[2].Remaining = Second

\* C17: the IDs of the timers in the registry are strictly increasing
\* along the sequence, hence pairwise distinct, whatever creations, ticks,
\* Start, Stop and Reset came before; a timer created into an empty
\* registry, as after Reset, gets ID 1.
C17_IDs ==
    /\ [](\A i, j \in DOMAIN timers : i < j => timers[i].ID < timers[j].ID)
    /\ [][ (timers = <<>> /\ timers' /= <<>>) =>
             (Len(timers') = 1 /\ timers'[1].ID = 1) ]_vars

\* a timer created with ID 1 after Reset removed a finished timer: the
\* cancelled sound task of that timer's alarm is still there
C17_Witness ==
    /\ Len(timers) = 1
    /\ timers[1].ID = 1
    /\ timers[1].Running /\ timers[1].Remaining = timers[1].Duration
    /\ Len(tasks) = 1
    /\ tasks[1].cancelled

\* C18: once the cancellation of an alarm-sound task has been signalled the
\* task makes nothing audible any more, neither by the player nor by the
\* terminal bell, also when the signal came before playback began.
C18_SilentAfterCancel == emitted /= "bell after cancel"

\* C19: between events an alarm handle is held exactly when some timer of
\* the registry is Alarming; with an empty registry no handle is held.
C19_HandleIffAlarming ==
    /\ (alarmCancel /= 0) <=> AnyAlarming(timers)
    /\ timers = <<>> => alarmCancel = 0

\* the handle still held after its task has returned, for the alarm of the
\* second timer; the first timer's alarm was dismissed before
C19_Witness ==
    /\ Len(timers) = 2
    /\ timers[1].Finished /\ ~timers[1].Alarming
    /\ timers[2].Alarming
    /\ alarmCancel /= 0
    /\ tasks[alarmCancel].pc = "done"

\* C20: in the single-timer variant at most one second tick is pending at
\* any time, also after Enter on Start, or Enter on Input with a valid
\* duration, while a countdown is already running.
C20_OneTickChain == singleTick <= 1
====
